---------------------------- MODULE Spec2Model ----------------------------
(***************************************************************************)
(* Model of app.py: coletar_dados_fundos (identifier normalisation, name   *)
(* lookup, remote fetch with gzip fallback, return-series construction)    *)
(* followed by calcular_e_plotar_correlacao.                               *)
(*                                                                         *)
(* Strings are sequences of one-character strings.  Python's None is the   *)
(* empty tuple and a present value v is <<v>> wherever a value may be      *)
(* absent (data_json, DataFrame cells).  Floating point returns are        *)
(* modelled as exact reduced fractions <<num, den>>.                       *)
(***************************************************************************)
EXTENDS Integers, Sequences, FiniteSets, TLC

VARIABLES cnpjs, i, pc, cnpj, nome_display, resp, tentativas, data_json, err,
          fundos_retornos, erros, nomeCache, trace, corr

vars == <<cnpjs, i, pc, cnpj, nome_display, resp, tentativas, data_json, err,
          fundos_retornos, erros, nomeCache, trace, corr>>

(***************************************************************************)
(* Bounds of the model.                                                    *)
(***************************************************************************)
\* longest list of raw identifiers handed to coletar_dados_fundos
MaxCnpjs == 2
\* most records in a payload of the exhaustive series-builder specification
MaxRecords == 3
\* dates of the exhaustive payloads are days 1..MaxDay
MaxDay == 3

(***************************************************************************)
(* Python values.                                                          *)
(***************************************************************************)
None == <<>>
Some(v) == <<v>>
NaN == <<>>
NaT == <<>>

Digits == {"0", "1", "2", "3", "4", "5", "6", "7", "8", "9"}

Max(a, b) == IF a >= b THEN a ELSE b

\* s[-n:]
UltimosN(s, n) == SubSeq(s, Max(1, Len(s) - n + 1), Len(s))

(***************************************************************************)
(* clean_cnpj: re.sub(r"\D", "", cnpj_raw), "" for a falsy argument.       *)
(***************************************************************************)
NaoDigito(c) == c \notin Digits

SubNaoDigitos(s) == SelectSeq(s, LAMBDA c : ~NaoDigito(c))

\* a normaliser that strips only the CNPJ punctuation and keeps letters
clean_cnpj_so_pontuacao(cnpj_raw) ==
    SelectSeq(cnpj_raw, LAMBDA c : c \notin {".", "/", "-", " "})

clean_cnpj(cnpj_raw) ==
    IF cnpj_raw = <<>> THEN <<>> ELSE SubNaoDigitos(cnpj_raw)

(***************************************************************************)
(* obter_nome_fundo: the page is None when requests.get raises or the      *)
(* document has no <h1> (soup.find returns None and .get_text raises);     *)
(* otherwise it carries the text of the first <h1>.                        *)
(***************************************************************************)
RECURSIVE LStrip(_)
LStrip(s) == IF s # <<>> /\ Head(s) = " " THEN LStrip(Tail(s)) ELSE s

RECURSIVE RStrip(_)
RStrip(s) ==
    IF s # <<>> /\ s[Len(s)] = " " THEN RStrip(SubSeq(s, 1, Len(s) - 1)) ELSE s

\* get_text(strip=True)
Strip(s) == RStrip(LStrip(s))

\* f"Fundo {cnpj[-4:]}"
NomeExcecao(c) == <<"F", "u", "n", "d", "o", " ">> \o UltimosN(c, 4)

\* f"Fundo_{cnpj[-6:]}"
NomeFallback(c) == <<"F", "u", "n", "d", "o", "_">> \o UltimosN(c, 6)

obter_nome_fundo(c, pagina) ==
    IF pagina = None THEN NomeExcecao(c) ELSE Strip(pagina[1])

\* nome if nome else f"Fundo_{cnpj[-6:]}"
NomeDisplay(nome, c) == IF nome # <<>> THEN nome ELSE NomeFallback(c)

(***************************************************************************)
(* fetch_json_url.  A response body is [gzip, texto, payload]: gzip is the *)
(* number of gzip layers around the innermost bytes, texto says whether    *)
(* those bytes are UTF-8 JSON text ("json") or not ("lixo"), and payload   *)
(* is the value json.loads returns for them.  A gzip stream starts with    *)
(* the bytes 1f 8b, which are not valid UTF-8, so decoding a compressed    *)
(* body as text always fails.                                              *)
(***************************************************************************)
SemErro == [tipo |-> "", code |-> 0]

Erro(tipo, code) == [tipo |-> tipo, code |-> code]

\* json.loads(content.decode("utf-8")): None when it raises
DecodeJson(content) ==
    IF content.gzip = 0 /\ content.texto = "json"
    THEN Some(content.payload) ELSE None

\* GzipFile(fileobj=BytesIO(content)).read(): None when it raises
Gunzip(content) ==
    IF content.gzip > 0
    THEN Some([content EXCEPT !.gzip = content.gzip - 1]) ELSE None

\* the fallback of lines 53-63: gunzip, then decode and parse
TentarGunzip(content) ==
    LET g == Gunzip(content) IN
    IF g = None THEN None ELSE DecodeJson(g[1])

\* a fetcher whose except branch gives up without the gunzip attempt
SemFallbackGzip(content) == None

DecodeFallback(content) == TentarGunzip(content)

\* r.status_code != 200
StatusRecusado(status) == status # 200

fetch_json_url(r) ==
    IF r.excecao
    THEN [data |-> None, err |-> Erro("Request error", 0), tent |-> <<>>]
    ELSE IF StatusRecusado(r.status)
    THEN [data |-> None, err |-> Erro("Status", r.status), tent |-> <<>>]
    ELSE LET d1 == DecodeJson(r.content) IN
         IF d1 # None
         THEN [data |-> d1, err |-> SemErro, tent |-> <<"utf8">>]
         ELSE LET d2 == DecodeFallback(r.content) IN
              IF d2 # None
              THEN [data |-> d2, err |-> SemErro, tent |-> <<"utf8", "gzip">>]
              ELSE [data |-> None, err |-> Erro("JSON decode error", 0),
                    tent |-> <<"utf8", "gzip">>]

(***************************************************************************)
(* The series builder, lines 95-112.  A payload is a sequence of JSON      *)
(* objects; an object is a function from its keys to its values.  A date   *)
(* string is [fmt, dia]: fmt "iso" parses to day dia, fmt "lixo" makes     *)
(* pd.to_datetime raise.  Quota values are positive numbers.               *)
(***************************************************************************)
\* df.columns of pd.DataFrame(data_json): the union of the objects' keys
Colunas(p) == UNION {DOMAIN p[k] : k \in DOMAIN p}

\* a cell of pd.DataFrame(data_json): NaN where the object lacks the key
Celula(obj, col) == IF col \in DOMAIN obj THEN Some(obj[col]) ELSE NaN

DataFrame(p) ==
    [k \in 1..Len(p) |-> [DT_COMPTC |-> Celula(p[k], "DT_COMPTC"),
                          VL_QUOTA  |-> Celula(p[k], "VL_QUOTA")]]

\* 'DT_COMPTC' not in df.columns or 'VL_QUOTA' not in df.columns
FaltaColuna(p) ==
    "DT_COMPTC" \notin Colunas(p) \/ "VL_QUOTA" \notin Colunas(p)

\* pd.to_datetime raises on a string that is no date
ToDatetimeFalha(df) ==
    \E k \in DOMAIN df : df[k].DT_COMPTC # NaN /\ df[k].DT_COMPTC[1].fmt # "iso"

\* pd.to_datetime of one cell: NaN becomes NaT
ToDatetime(cel) ==
    IF cel = NaN \/ cel[1].fmt # "iso" THEN NaT ELSE Some(cel[1].dia)

\* the order of sort_values: ascending, NaT last (na_position='last')
Menor(a, b) == a # NaT /\ (b = NaT \/ a[1] < b[1])

Minimos(datas, S) == {k \in S : \A j \in S : ~Menor(datas[j], datas[k])}

\* sort_values('DT_COMPTC') uses quicksort, which is not stable: every
\* permutation that puts the dates in order is a possible result
RECURSIVE Ordenacoes(_, _)
Ordenacoes(datas, S) ==
    IF S = {} THEN {<<>>}
    ELSE UNION {{<<k>> \o r : r \in Ordenacoes(datas, S \ {k})} :
                k \in Minimos(datas, S)}

RECURSIVE GCD(_, _)
GCD(a, b) == IF b = 0 THEN a ELSE GCD(b, a % b)

Abs(n) == IF n < 0 THEN 0 - n ELSE n

\* the number n/d (d > 0) in lowest terms
Frac(n, d) == LET g == GCD(Abs(n), d) IN <<n \div g, d \div g>>

\* a log-return-like difference in place of the relative change
RetornoDiferenca(cur, prev) == Frac(cur - prev, 1)

\* cur/prev - 1
Retorno(cur, prev) == Frac(cur - prev, prev)

\* ffill: the last value at or before k, NaN when there is none
Ffill(vals) ==
    [k \in 1..Len(vals) |->
        LET S == {j \in 1..k : vals[j] # NaN} IN
        IF S = {} THEN NaN ELSE vals[CHOOSE j \in S : \A m \in S : m <= j]]

\* Series.pct_change(): with pad the NaN are forward-filled first (the
\* default up to pandas 2.x), without it they are left alone (pandas 3)
PctChange(vals, pad) ==
    LET f == IF pad THEN Ffill(vals) ELSE vals IN
    [k \in 1..Len(vals) |->
        IF k = 1 \/ f[k] = NaN \/ f[k - 1] = NaN THEN NaN
        ELSE Some(Retorno(f[k][1], f[k - 1][1]))]

\* lines 100-103: the rows in the order ordem, indexed by date, then
\* pct_change().dropna()
SeriesRetorno(p, ordem, pad) ==
    LET df    == DataFrame(p)
        datas == [k \in 1..Len(p) |-> ToDatetime(df[ordem[k]].DT_COMPTC)]
        vals  == [k \in 1..Len(p) |-> df[ordem[k]].VL_QUOTA]
        pct   == PctChange(vals, pad)
        linhas == [k \in 1..Len(p) |-> [data |-> datas[k], ret |-> pct[k]]]
        ficam == SelectSeq(linhas, LAMBDA l : l.ret # NaN)
    IN  [k \in 1..Len(ficam) |-> [data |-> ficam[k].data, ret |-> ficam[k].ret[1]]]

\* the orders sort_values may produce for payload p
OrdensDe(p) ==
    LET df == DataFrame(p) IN
    Ordenacoes([k \in 1..Len(p) |-> ToDatetime(df[k].DT_COMPTC)], 1..Len(p))

RegistroErro(id, motivo, detalhe) ==
    [id |-> id, motivo |-> motivo, detalhe |-> detalhe]

\* fundos_retornos[nome_display] = series_retorno
Guardar(fr, nome, serie) ==
    [n \in DOMAIN fr \cup {nome} |-> IF n = nome THEN serie ELSE fr[n]]

\* an exception that is not caught ends the run
PropagaExcecao == "abortado"

\* lines 110-112: except Exception ... continue
AposExcecao == "loop"

\* line 109: time.sleep(0.4) sits on the path that stored a series
Dorme(guardou) == guardou

\* an empty series dropped without a record
ErrosRetornosVaziosOmitido(er, c) == er

\* lines 104-106
ErrosRetornosVazios(er, c) ==
    Append(er, RegistroErro(c, "Retornos vazios apos pct_change", SemErro))

\* lines 95-112 for a truthy data_json: the new map, error list, position
\* and whether time.sleep ran
ProcessarPayload(c, nome, p, fr, er, ordem, pad) ==
    IF FaltaColuna(p)
    THEN [fundos |-> fr, guardou |-> FALSE, dormiu |-> Dorme(FALSE), pc |-> "loop",
          erros |-> Append(er, RegistroErro(c, "Estrutura JSON inesperada", SemErro))]
    ELSE IF ToDatetimeFalha(DataFrame(p))
    THEN [fundos |-> fr, guardou |-> FALSE, dormiu |-> Dorme(FALSE), pc |-> AposExcecao,
          erros |-> Append(er, RegistroErro(c, "Erro ao processar JSON -> DataFrame",
                                            Erro("to_datetime", 0)))]
    ELSE LET serie == SeriesRetorno(p, ordem, pad) IN
         IF serie = <<>>
         THEN [fundos |-> fr, guardou |-> FALSE, dormiu |-> Dorme(FALSE), pc |-> "loop",
               erros |-> ErrosRetornosVazios(er, c)]
         ELSE [fundos |-> Guardar(fr, nome, serie), guardou |-> TRUE,
               dormiu |-> Dorme(TRUE), pc |-> "loop", erros |-> er]

(***************************************************************************)
(* calcular_e_plotar_correlacao up to df.corr(), lines 122-131.  The       *)
(* result records which branch ran and, for the matrix, the columns and    *)
(* the dates of the aligned frame.  pd.concat(..., join='inner') reindexes *)
(* every series to the intersection of the indexes and raises on a series  *)
(* whose index holds a date twice; nothing catches that exception.         *)
(***************************************************************************)
DatasDe(serie) == {serie[k].data : k \in DOMAIN serie}

TemDataRepetida(serie) ==
    \E a, b \in DOMAIN serie : a # b /\ serie[a].data = serie[b].data

\* the index of pd.concat(fundos_retornos, axis=1, join='inner')
DatasComuns(fr) ==
    {d \in UNION {DatasDe(fr[n]) : n \in DOMAIN fr} :
        \A n \in DOMAIN fr : d \in DatasDe(fr[n])}

SemCorr == [sinal |-> "", colunas |-> {}, datas |-> {}]

\* df.shape[1] < 2
PoucasColunas(colunas, datas) == Cardinality(colunas) < 2

calcular_e_plotar_correlacao(fr) ==
    IF Cardinality(DOMAIN fr) < 2
    THEN [sinal |-> "aviso: menos de 2 fundos", colunas |-> {}, datas |-> {}]
    ELSE IF \E n \in DOMAIN fr : TemDataRepetida(fr[n])
    THEN [sinal |-> "excecao", colunas |-> {}, datas |-> {}]
    ELSE IF PoucasColunas(DOMAIN fr, DatasComuns(fr))
    THEN [sinal |-> "aviso: menos de 2 series apos alinhamento",
          colunas |-> {}, datas |-> {}]
    ELSE [sinal |-> "matriz", colunas |-> DOMAIN fr, datas |-> DatasComuns(fr)]

(***************************************************************************)
(* The environment: the identifiers typed in, the pages of the name site   *)
(* and the responses of the series endpoint.                               *)
(***************************************************************************)
\* "18860059/0001-15", the formatted example of the input placeholder
RawFormatado == <<"1", "8", "8", "6", "0", "0", "5", "9", "/",
                  "0", "0", "0", "1", "-", "1", "5">>
\* "123"
RawCurto == <<"1", "2", "3">>
\* "n/a"
RawSemDigito == <<"n", "/", "a">>

RawInputs == {RawFormatado, RawCurto, RawSemDigito, <<>>}

ListasDeCnpjs == UNION {[1..n -> RawInputs] : n \in 0..MaxCnpjs}

\* the <h1> texts of the name site; None when the lookup raises
Paginas == {None, Some(<<" ", "A", "l", "f", "a", " ">>), Some(<<" ">>)}

DataIso(d) == [fmt |-> "iso", dia |-> d]
DataLixo == [fmt |-> "lixo", dia |-> 0]

Reg(d, q) == [DT_COMPTC |-> DataIso(d), VL_QUOTA |-> q]

\* payloads the series endpoint answers with in the orchestrator runs
PayloadsAmostra ==
    { <<>>,
      <<Reg(1, 1)>>,
      <<Reg(2, 2), Reg(1, 1)>>,
      <<Reg(1, 2), Reg(2, 1)>>,
      <<Reg(3, 1), Reg(4, 2)>>,
      <<[VL_QUOTA |-> 1], [VL_QUOTA |-> 2]>>,
      <<Reg(1, 1), [DT_COMPTC |-> DataLixo, VL_QUOTA |-> 2]>> }

Corpo(g, texto, p) == [gzip |-> g, texto |-> texto, payload |-> p]

Resposta(status, content) ==
    [excecao |-> FALSE, status |-> status, content |-> content]

SemResposta == [excecao |-> FALSE, status |-> 0, content |-> Corpo(0, "lixo", <<>>)]

RespostaExcecao == [excecao |-> TRUE, status |-> 0, content |-> Corpo(0, "lixo", <<>>)]

Respostas ==
    {RespostaExcecao}
    \cup {Resposta(200, Corpo(0, "json", p)) : p \in PayloadsAmostra}
    \cup {Resposta(200, Corpo(g, "json", <<Reg(2, 2), Reg(1, 1)>>)) : g \in 1..2}
    \cup {Resposta(200, Corpo(g, "lixo", <<>>)) : g \in 0..1}
    \cup {Resposta(404, Corpo(0, "lixo", <<>>)),
          Resposta(203, Corpo(1, "json", <<Reg(2, 2), Reg(1, 1)>>))}

\* the quota values of the exhaustive payloads
Quotas == {1, 2}

\* every payload of at most MaxRecords objects, each with or without either
\* field, over the days 1..MaxDay (or an unparseable date) and the quota
\* values Quotas
Objetos ==
    {Reg(d, q) : d \in 1..MaxDay, q \in Quotas}
    \cup {[DT_COMPTC |-> DataLixo, VL_QUOTA |-> 1]}
    \cup {[DT_COMPTC |-> DataIso(d)] : d \in 1..MaxDay}
    \cup {[VL_QUOTA |-> q] : q \in Quotas}

Payloads == UNION {[1..n -> Objetos] : n \in 1..MaxRecords}

(***************************************************************************)
(* The state machine.                                                      *)
(***************************************************************************)
FundosVazio == [n \in {} |-> <<>>]

Evento(ev, id) == [ev |-> ev, id |-> id]

\* the locals of one iteration, unbound at the loop head
LocaisLimpos ==
    /\ nome_display' = <<>>
    /\ resp' = SemResposta
    /\ tentativas' = <<>>
    /\ data_json' = None
    /\ err' = SemErro

Init ==
    /\ cnpjs \in ListasDeCnpjs
    /\ i = 1
    /\ pc = "loop"
    /\ cnpj = <<>>
    /\ nome_display = <<>>
    /\ resp = SemResposta
    /\ tentativas = <<>>
    /\ data_json = None
    /\ err = SemErro
    /\ fundos_retornos = FundosVazio
    /\ erros = <<>>
    /\ nomeCache = FundosVazio
    /\ trace = <<>>
    /\ corr = SemCorr

\* lines 76-80: the loop head, clean_cnpj and the rejection of an empty result
Limpar ==
    /\ pc = "loop"
    /\ i <= Len(cnpjs)
    /\ LocaisLimpos
    /\ cnpj' = clean_cnpj(cnpjs[i])
    /\ IF cnpj' = <<>>
       THEN /\ erros' = Append(erros, RegistroErro(cnpjs[i],
                                     "CNPJ invalido apos limpeza", SemErro))
            /\ i' = i + 1
            /\ pc' = "loop"
       ELSE /\ erros' = erros
            /\ i' = i
            /\ pc' = "nome"
    /\ UNCHANGED <<cnpjs, fundos_retornos, nomeCache, trace, corr>>

\* lines 83-84: obter_nome_fundo behind st.cache_data, and the display name
ObterNome ==
    /\ pc = "nome"
    /\ \E pagina \in Paginas :
         LET hit  == cnpj \in DOMAIN nomeCache
             nome == IF hit THEN nomeCache[cnpj] ELSE obter_nome_fundo(cnpj, pagina)
         IN  /\ nome_display' = NomeDisplay(nome, cnpj)
             /\ nomeCache' = IF hit THEN nomeCache
                             ELSE [c \in DOMAIN nomeCache \cup {cnpj} |->
                                     IF c = cnpj THEN nome ELSE nomeCache[c]]
             /\ trace' = IF hit THEN trace ELSE Append(trace, Evento("nome", cnpj))
    /\ pc' = "fetch"
    /\ UNCHANGED <<cnpjs, i, cnpj, resp, tentativas, data_json, err,
                   fundos_retornos, erros, corr>>

\* if not data_json
Falsy(data) == data = None \/ data[1] = <<>>

\* lines 86-93: the request to the series endpoint and the two checks on
\* its result
Fetch ==
    /\ pc = "fetch"
    /\ \E r \in Respostas :
         LET res == fetch_json_url(r) IN
         /\ resp' = r
         /\ tentativas' = res.tent
         /\ data_json' = res.data
         /\ err' = res.err
         /\ IF res.err.tipo # ""
            THEN /\ erros' = Append(erros, RegistroErro(cnpj, "Erro ao buscar dados", res.err))
                 /\ i' = i + 1
                 /\ pc' = "loop"
            ELSE IF Falsy(res.data)
            THEN /\ erros' = Append(erros, RegistroErro(cnpj,
                                   "Sem dados retornados (lista vazia)", SemErro))
                 /\ i' = i + 1
                 /\ pc' = "loop"
            ELSE /\ erros' = erros
                 /\ i' = i
                 /\ pc' = "build"
    /\ trace' = Append(trace, Evento("fetch", cnpj))
    /\ UNCHANGED <<cnpjs, cnpj, nome_display, fundos_retornos, nomeCache, corr>>

\* lines 95-112: the series builder on the fetched payload
Processar ==
    /\ pc = "build"
    /\ \E ordem \in OrdensDe(data_json[1]), pad \in BOOLEAN :
         \E res \in {ProcessarPayload(cnpj, nome_display, data_json[1],
                                      fundos_retornos, erros, ordem, pad)} :
             /\ fundos_retornos' = res.fundos
             /\ erros' = res.erros
             /\ pc' = res.pc
             /\ trace' = trace
                  \o (IF res.guardou THEN <<Evento("guardar", nome_display)>> ELSE <<>>)
                  \o (IF res.dormiu THEN <<Evento("sleep", <<>>)>> ELSE <<>>)
    /\ i' = i + 1
    /\ UNCHANGED <<cnpjs, cnpj, nome_display, resp, tentativas, data_json, err,
                   nomeCache, corr>>

\* line 114: return fundos_retornos, erros
Retornar ==
    /\ pc = "loop"
    /\ i > Len(cnpjs)
    /\ pc' = "done"
    /\ LocaisLimpos
    /\ UNCHANGED <<cnpjs, i, cnpj, fundos_retornos, erros, nomeCache, trace, corr>>

\* line 197: calcular_e_plotar_correlacao(fundos_retornos)
Correlacao ==
    /\ pc = "done"
    /\ corr' = calcular_e_plotar_correlacao(fundos_retornos)
    /\ pc' = "fim"
    /\ UNCHANGED <<cnpjs, i, cnpj, nome_display, resp, tentativas, data_json, err,
                   fundos_retornos, erros, nomeCache, trace>>

Next == Limpar \/ ObterNome \/ Fetch \/ Processar \/ Retornar \/ Correlacao

Spec == Init /\ [][Next]_vars

(***************************************************************************)
(* The series builder on every payload: the run of the orchestrator on one *)
(* identifier, taken from the point where the fetch has returned a         *)
(* non-empty payload (the state Limpar, ObterNome and Fetch lead to when   *)
(* the endpoint answers 200 with that payload as plain JSON).              *)
(***************************************************************************)
InitSeries ==
    /\ cnpjs = <<RawFormatado>>
    /\ i = 1
    /\ pc = "build"
    /\ cnpj = clean_cnpj(RawFormatado)
    /\ \E pagina \in Paginas :
         LET nome == obter_nome_fundo(cnpj, pagina) IN
         /\ pagina = Some(<<" ", "A", "l", "f", "a", " ">>)
         /\ nome_display = NomeDisplay(nome, cnpj)
         /\ nomeCache = [c \in {cnpj} |-> nome]
    /\ \E p \in Payloads :
         LET r == Resposta(200, Corpo(0, "json", p)) IN
         /\ resp = r
         /\ tentativas = fetch_json_url(r).tent
         /\ data_json = fetch_json_url(r).data
         /\ err = fetch_json_url(r).err
    /\ fundos_retornos = FundosVazio
    /\ erros = <<>>
    /\ trace = <<Evento("nome", cnpj), Evento("fetch", cnpj)>>
    /\ corr = SemCorr

NextSeries == Processar \/ Retornar \/ Correlacao

SpecSeries == InitSeries /\ [][NextSeries]_vars

(***************************************************************************)
(* Properties.                                                             *)
(***************************************************************************)
Posicoes(ev) == {k \in DOMAIN trace : trace[k].ev = ev}

SoDigitos(s) == \A k \in DOMAIN s : s[k] \in Digits

SemDigito(s) == \A k \in DOMAIN s : s[k] \notin Digits

\* the display names of the series stored so far, one per store
NomesGuardados == {trace[k].id : k \in Posicoes("guardar")}

NomesDistintos == Cardinality(NomesGuardados) = Cardinality(Posicoes("guardar"))

\* C1: when the funds collected have distinct display names, the map and
\* the error list returned hold together one entry per submitted identifier;
\* at every loop head each identifier handled so far has produced exactly
\* one outcome, a stored series or an error record.
C1_UmResultadoPorIdentificador ==
    /\ pc = "loop" =>
         Cardinality(Posicoes("guardar")) + Len(erros) = i - 1
    /\ (pc \in {"done", "fim"} /\ NomesDistintos) =>
         Cardinality(DOMAIN fundos_retornos) + Len(erros) = Len(cnpjs)

C1_Witness ==
    /\ pc = "done"
    /\ Len(cnpjs) = 2
    /\ NomesDistintos
    /\ Cardinality(DOMAIN fundos_retornos) = 1
    /\ Len(erros) = 1

\* one step of the loop body that records a failure: one error record is
\* appended for the identifier, the map is untouched and the loop goes on
\* with the next identifier
PassoFalha ==
    /\ Len(erros') = Len(erros) + 1
    /\ SubSeq(erros', 1, Len(erros)) = erros
    /\ erros'[Len(erros')].id \in {cnpjs[i], SelectSeq(cnpjs[i], LAMBDA c : c \in Digits)}
    /\ fundos_retornos' = fundos_retornos
    /\ cnpjs' = cnpjs
    /\ i' = i + 1
    /\ pc' = "loop"

\* one step that goes on with the same identifier
PassoSegue ==
    /\ erros' = erros
    /\ fundos_retornos' = fundos_retornos
    /\ cnpjs' = cnpjs
    /\ i' = i
    /\ pc' \in {"nome", "fetch", "build"}

\* the step that stores the identifier's series under its display name
PassoGuarda ==
    /\ erros' = erros
    /\ DOMAIN fundos_retornos' = DOMAIN fundos_retornos \cup {nome_display}
    /\ \A n \in DOMAIN fundos_retornos \ {nome_display} :
         fundos_retornos'[n] = fundos_retornos[n]
    /\ cnpjs' = cnpjs
    /\ i' = i + 1
    /\ pc' = "loop"

\* this step looked the name up (no cached name) and the lookup raised
LookupFalhou ==
    /\ pc = "nome"
    /\ cnpj \notin DOMAIN nomeCache
    /\ nomeCache'[cnpj] = NomeExcecao(cnpj)

\* the failures of normalisation, fetch, decode and series building
FalhasIsoladas ==
    /\ (pc = "loop" /\ i <= Len(cnpjs) /\ SemDigito(cnpjs[i])) => PassoFalha
    /\ (pc = "fetch" /\ err'.tipo # "") => PassoFalha
    /\ (pc = "fetch" /\ err'.tipo = "") => (PassoFalha \/ PassoSegue)
    /\ pc = "build" => (PassoFalha \/ PassoGuarda)
    /\ pc' \in {"done", "fim"} => i' = Len(cnpjs') + 1

\* C2 as stated: a failure of any step, the name lookup included, is
\* appended to the error list, the batch goes on with the next identifier
\* and the series stored before stay as they are.
C2_TodaFalhaRegistrada ==
    [][FalhasIsoladas /\ (LookupFalhou => PassoFalha)]_vars

\* C2 amended: a failure of normalisation, fetch, decode or series building
\* is appended to the error list, leaves the stored series untouched and
\* the loop goes on with the next identifier until the list is exhausted; a
\* failed name lookup is not recorded: the identifier goes on to the fetch
\* under a generated name.
C2_FalhasIsoladas ==
    [][FalhasIsoladas /\ (pc = "nome" => PassoSegue)]_vars

C2_Witness ==
    /\ pc = "done"
    /\ Len(cnpjs) = 2
    /\ Len(erros) = 1
    /\ erros[1].motivo = "Erro ao buscar dados"
    /\ erros[1].id = clean_cnpj(cnpjs[2])
    /\ Cardinality(DOMAIN fundos_retornos) = 1
    /\ \E c \in DOMAIN nomeCache : nomeCache[c] = NomeExcecao(c)

\* the state right after the series builder ran on the payload in data_json
Processado == pc = "loop" /\ data_json # None /\ data_json[1] # <<>>

CamposPresentes(p) ==
    \A k \in DOMAIN p : DOMAIN p[k] = {"DT_COMPTC", "VL_QUOTA"}

DatasValidasDistintas(p) ==
    /\ \A k \in DOMAIN p : p[k].DT_COMPTC.fmt = "iso"
    /\ \A k, m \in DOMAIN p : k # m => p[k].DT_COMPTC.dia # p[m].DT_COMPTC.dia

\* the object of p whose date is the r-th in ascending order
NaOrdem(p, r) ==
    p[CHOOSE k \in DOMAIN p :
        Cardinality({m \in DOMAIN p : p[m].DT_COMPTC.dia < p[k].DT_COMPTC.dia}) = r - 1]

\* C3: for a payload of at least 2 observations on distinct dates with both
\* fields in every record, the stored series has one entry fewer than the
\* payload, and its j-th entry is dated with the (j+1)-th date in ascending
\* order and equals quota/previous quota - 1 over the rows in date order.
C3_RetornosDiarios ==
    (/\ Processado
     /\ Len(data_json[1]) >= 2
     /\ CamposPresentes(data_json[1])
     /\ DatasValidasDistintas(data_json[1]))
    => /\ erros = <<>>
       /\ DOMAIN fundos_retornos = {nome_display}
       /\ LET p == data_json[1]
              s == fundos_retornos[nome_display]
          IN  /\ Len(s) = Len(p) - 1
              /\ \A j \in 1..Len(s) :
                   LET cur  == NaOrdem(p, j + 1)
                       prev == NaOrdem(p, j)
                   IN  /\ s[j].data = Some(cur.DT_COMPTC.dia)
                       /\ s[j].ret[2] > 0
                       /\ s[j].ret[1] * prev.VL_QUOTA
                            = s[j].ret[2] * (cur.VL_QUOTA - prev.VL_QUOTA)

C3_Witness ==
    /\ Processado
    /\ Len(data_json[1]) = 3
    /\ CamposPresentes(data_json[1])
    /\ DatasValidasDistintas(data_json[1])
    /\ data_json[1][1].DT_COMPTC.dia > data_json[1][2].DT_COMPTC.dia
    /\ data_json[1][1].VL_QUOTA # data_json[1][2].VL_QUOTA
    /\ nome_display \in DOMAIN fundos_retornos
    /\ Len(fundos_retornos[nome_display]) = 2

\* some object of the payload lacks the date or the quota field
FaltaCampoEmRegistro(p) == ~CamposPresentes(p)

\* the dates that are present are parseable and no two records share one
DatasPresentesDistintas(p) ==
    \A k, m \in DOMAIN p :
        ("DT_COMPTC" \in DOMAIN p[k] /\ "DT_COMPTC" \in DOMAIN p[m]) =>
            /\ p[k].DT_COMPTC.fmt = "iso"
            /\ k # m => p[k].DT_COMPTC.dia # p[m].DT_COMPTC.dia

\* C4: a payload with a record that lacks DT_COMPTC or VL_QUOTA never yields
\* a series built from the remaining records: nothing is stored for it and
\* an error is recorded (the claim names the 'unexpected structure' error;
\* any error record is accepted here, and the payloads are those whose dates
\* are distinct, so that the order of the rows is determined).
C4_CampoAusenteSemSerie ==
    (/\ Processado
     /\ FaltaCampoEmRegistro(data_json[1])
     /\ DatasPresentesDistintas(data_json[1]))
    => /\ fundos_retornos = FundosVazio
       /\ Len(erros) = 1

\* C5: with fewer than 2 series, or with series that share no date, the
\* correlation step warns of insufficient data and computes no matrix.
C5_SinalizaDadosInsuficientes ==
    (/\ pc = "fim"
     /\ \/ Cardinality(DOMAIN fundos_retornos) < 2
        \/ DatasComuns(fundos_retornos) = {})
    => corr.sinal \in {"aviso: menos de 2 fundos",
                       "aviso: menos de 2 series apos alinhamento"}

\* C6: an identifier without any digit normalises to the empty string and
\* is rejected at the loop head: exactly one 'invalid identifier' record is
\* appended for it, and no name lookup, fetch or series building happens
\* for that entry.
C6_RejeitaSemDigito ==
    [][(pc = "loop" /\ i <= Len(cnpjs) /\ SemDigito(cnpjs[i]))
       => /\ cnpj' = <<>>
          /\ erros' = Append(erros, RegistroErro(cnpjs[i],
                                      "CNPJ invalido apos limpeza", SemErro))
          /\ trace' = trace
          /\ nomeCache' = nomeCache
          /\ fundos_retornos' = fundos_retornos
          /\ i' = i + 1
          /\ pc' = "loop"]_vars

C6_Witness ==
    /\ pc = "loop"
    /\ Len(erros) = 1
    /\ erros[1] = RegistroErro(RawSemDigito, "CNPJ invalido apos limpeza", SemErro)
    /\ trace = <<>>
    /\ i = 2

\* C7: every request to the series endpoint carries an identifier of
\* exactly 14 digits.
C7_FetchSo14Digitos ==
    \A k \in Posicoes("fetch") : Len(trace[k].id) = 14 /\ SoDigitos(trace[k].id)

\* a fetch has returned in this iteration
FetchFeito == resp # SemResposta

JsonPlano(c) == c.gzip = 0 /\ c.texto = "json"

JsonGzip(c) == c.gzip = 1 /\ c.texto = "json"

DatasCrescentes(s) ==
    \A k \in 1..(Len(s) - 1) :
        /\ s[k].data # NaT
        /\ s[k + 1].data # NaT
        /\ s[k].data[1] < s[k + 1].data[1]

\* C9: every stored series has unique dates in strictly ascending order
\* (stated for the payloads whose records all carry both fields and a
\* parseable date, where only repeated dates can break it).
C9_DatasUnicasCrescentes ==
    (/\ Processado
     /\ CamposPresentes(data_json[1])
     /\ \A k \in DOMAIN data_json[1] : data_json[1][k].DT_COMPTC.fmt = "iso")
    => \A n \in DOMAIN fundos_retornos : DatasCrescentes(fundos_retornos[n])

\* C10: the pacing delay follows every fetch attempt, failed or not: between
\* any two consecutive requests to the series endpoint there is a delay.
C10_PausaEntreFetches ==
    \A a, b \in Posicoes("fetch") :
        a < b => \E k \in Posicoes("sleep") : a < k /\ k < b

=============================================================================
